---------------------------- MODULE Spec2Model ----------------------------
(* Model of the comment-rating scripts:                                    *)
(*   comment_rating_per.py (two copies), comment_rating_per_v2.py,         *)
(*   gender_prediction.py and the feather-based job comment_rating.py.     *)
(* Text is modelled as a sequence of one-character strings, so that        *)
(* str.strip(), str.lower(), substring tests and the regular expression    *)
(* of rate_comment are computed character by character.                    *)
EXTENDS Integers, Sequences, FiniteSets, TLC

VARIABLES
    pc,          \* position of the running program
    haveKey,     \* whether an API key can be resolved when a client is built
    remote,      \* what the remote model did for the call in hand
    entry,       \* the entry point or program a behaviour runs
    result,      \* what the entry point handed to its caller
    db,          \* the DuckDB file at db_path: whether it exists, and its tables
    con,         \* whether the connection init_db returned is open
    overwrite,   \* the overwrite argument of the last init_db
    table_name,  \* the table_name argument of the last init_db
    op,          \* the sink operation performed last
    prev,        \* the DuckDB file as it was before that operation
    clock,       \* CURRENT_TIMESTAMP, as a logical time
    cur,         \* main: index in `comments` of the comment in hand
    rows,        \* main: the list of rated rows not yet written
    inflight,    \* main: the comments whose remote call has no reply yet
    outcomes,    \* main: what the remote did for each comment so far
    Property,    \* job: the property names read from the definition file
    Property_Rating, \* job: the in-memory table of replies
    disk,        \* job: the table in the feather file at rating_path_feather
    xlsx,        \* job: the table in the spreadsheet at rating_path_xlsx
    ratingonly,  \* job: the scores-only table written last
    temp,        \* job: the newest snapshot in the temp folder (none is ever read back)
    pidx,        \* job: index in Property of the property in hand
    ridx,        \* job: index of the comment row in hand
    count,       \* job: rows scored for the property in hand
    calls,       \* job: remote calls issued so far
    visits,      \* job: the <<property index, row>> pairs the loops reached this run
    io,          \* job: the storage operation performed last and how it ended
    runs         \* runs of the program completed or aborted

callVars == <<entry, result>>
sinkVars == <<db, con, overwrite, table_name, op, prev, clock>>
mainVars == <<cur, rows, inflight, outcomes>>
jobVars  == <<Property, Property_Rating, disk, xlsx, ratingonly, temp, pidx, ridx,
              count, calls, visits, io>>

vars == <<pc, haveKey, remote, entry, result, db, con, overwrite, table_name,
          op, prev, clock, cur, rows, inflight, outcomes, Property,
          Property_Rating, disk, xlsx, ratingonly, temp, pidx, ridx, count,
          calls, visits, io, runs>>

-----------------------------------------------------------------------------
(* Bounds of the model.                                                    *)

MaxLen == 6          \* longest free-form reply enumerated in SpecParse
MaxOps == 6          \* sink operations in one behaviour of SpecSink
MaxBatch == 2        \* rows in one write_rows batch of SpecSink
MaxRuns == 1         \* runs of main in one behaviour of Spec
MaxJobRuns == 2      \* runs of the feather job in one behaviour of Spec
MaxRows == 3         \* comment rows of the feather job's table
MaxProps == 2        \* entries of the feather job's property list

-----------------------------------------------------------------------------
(* Text helpers.                                                           *)

\* The characters Python's str.isspace() / regex \s accept, as far as the
\* model's alphabet has them.
Whitespace == {" ", "\n", "\t"}

Digits == {"0", "1", "2", "3", "4", "5", "6", "7", "8", "9"}

\* int() of a one-digit string.
DigitValue(c) ==
    CASE c = "0" -> 0 [] c = "1" -> 1 [] c = "2" -> 2 [] c = "3" -> 3
      [] c = "4" -> 4 [] c = "5" -> 5 [] c = "6" -> 6 [] c = "7" -> 7
      [] c = "8" -> 8 [] c = "9" -> 9

RECURSIVE LStrip(_)
LStrip(s) ==
    IF s = <<>> THEN s
    ELSE IF Head(s) \in Whitespace THEN LStrip(Tail(s)) ELSE s

RECURSIVE RStrip(_)
RStrip(s) ==
    IF s = <<>> THEN s
    ELSE IF s[Len(s)] \in Whitespace THEN RStrip(SubSeq(s, 1, Len(s) - 1)) ELSE s

\* str.strip(): leading and trailing whitespace removed.
Strip(s) == RStrip(LStrip(s))

\* The index of the first non-whitespace character of s at or after i
\* (Len(s) + 1 when there is none): where a greedy \s* started at i ends.
RECURSIVE SkipWS(_, _)
SkipWS(s, i) ==
    IF i > Len(s) THEN i
    ELSE IF s[i] \in Whitespace THEN SkipWS(s, i + 1) ELSE i

\* Regex `$` without re.MULTILINE: the end of the string, or just before a
\* newline that ends the string.
AtEnd(s, i) == \/ i = Len(s) + 1
               \/ i = Len(s) /\ s[i] = "\n"

\* Regex `.` without re.DOTALL: any character but a newline.
Dot(c) == c # "\n"

Sentinel == <<"[", "N", "a", "N", ",", "N", "a", "N", "]">>

ErrorTag == <<"E", "r", "r", "o", "r", ":", " ">>

UnexpectedFormat ==
    <<"U", "n", "e", "x", "p", "e", "c", "t", "e", "d", " ",
      "f", "o", "r", "m", "a", "t", ":", " ">>

\* Python's Optional[int]: None is the empty tuple, an integer n the tuple <<n>>.
None    == <<>>
Some(n) == <<n>>

\* No value yet.
Pending == [kind |-> "pending"]

-----------------------------------------------------------------------------
(* re.match(r"\[\s*(\d)\s*,\s*(.+?)\s*\]$", raw)                           *)

\* The position of group 1 (the digit), or 0 when the prefix \[\s*(\d)
\* does not match at the start of raw.
DigitAt(raw) ==
    IF Len(raw) >= 1 /\ raw[1] = "["
    THEN LET i == SkipWS(raw, 2)
         IN  IF i <= Len(raw) /\ raw[i] \in Digits THEN i ELSE 0
    ELSE 0

\* The position after \s*, following the digit, or 0 when it does not match.
AfterComma(raw) ==
    LET d == DigitAt(raw) IN
    IF d = 0 THEN 0
    ELSE LET i == SkipWS(raw, d + 1)
         IN  IF i <= Len(raw) /\ raw[i] = "," THEN i + 1 ELSE 0

\* Group 2 spanning raw[a..b] lets the rest of the pattern, \s*\]$, match.
TailMatches(raw, a, b) ==
    /\ a <= b
    /\ b <= Len(raw)
    /\ \A k \in a..b : Dot(raw[k])
    /\ LET c == SkipWS(raw, b + 1)
       IN  /\ c <= Len(raw)
           /\ raw[c] = "]"
           /\ AtEnd(raw, c + 1)

\* The starts the greedy \s* before group 2 can leave to group 2.
TextStarts(raw) ==
    LET j == AfterComma(raw) IN
    IF j = 0 THEN {}
    ELSE {a \in j..SkipWS(raw, j) :
             \E b \in a..Len(raw) : TailMatches(raw, a, b)}

SetMax(S) == CHOOSE x \in S : \A y \in S : y <= x
SetMin(S) == CHOOSE x \in S : \A y \in S : x <= y

ReMatches(raw) == TextStarts(raw) # {}

\* Group 2 written (.+) instead of (.+?): the longest text, not the shortest.
ReGroupsGreedy(raw) ==
    LET a == SetMax(TextStarts(raw))
        b == SetMax({e \in a..Len(raw) : TailMatches(raw, a, e)})
    IN  [digit |-> raw[DigitAt(raw)], text |-> SubSeq(raw, a, b)]

\* The backtracking order: the \s* before group 2 is greedy (longest first),
\* group 2 is lazy (shortest first).
ReGroups(raw) ==
    LET a == SetMax(TextStarts(raw))
        b == SetMin({e \in a..Len(raw) : TailMatches(raw, a, e)})
    IN  [digit |-> raw[DigitAt(raw)], text |-> SubSeq(raw, a, b)]

-----------------------------------------------------------------------------
(* What the remote endpoint can do for one request, and what a Python call *)
(* can hand to its caller.                                                 *)

\* client.chat.completions.create(...) raises (network, authentication, quota).
Fault(msg)    == [kind |-> "fault", msg |-> msg]
\* It returns a completion whose `choices` list is empty.
NoChoices     == [kind |-> "nochoices"]
\* It returns a completion whose first message has content None.
NoContent     == [kind |-> "nocontent"]
\* It returns a completion whose first message holds `text`.
Content(text) == [kind |-> "content", text |-> text]

NetworkError == <<"n", "e", "t", "w", "o", "r", "k">>
AuthError    == <<"4", "0", "1">>
QuotaError   == <<"4", "2", "9">>
\* str(IndexError) of `completion.choices[0]` on an empty list.
IndexErrorMsg ==
    <<"l", "i", "s", "t", " ", "i", "n", "d", "e", "x", " ", "o", "u", "t",
      " ", "o", "f", " ", "r", "a", "n", "g", "e">>
\* str(AttributeError) of `None.strip()`.
AttributeErrorMsg ==
    <<"'", "N", "o", "n", "e", "T", "y", "p", "e", "'", " ", "o", "b", "j",
      "e", "c", "t", " ", "h", "a", "s", " ", "n", "o", " ", "a", "t", "t",
      "r", "i", "b", "u", "t", "e", " ", "'", "s", "t", "r", "i", "p", "'">>
\* str(OpenAIError) of openai.OpenAI(api_key=None) with no key in the environment.
ApiKeyErrorMsg == <<"n", "o", " ", "a", "p", "i", " ", "k", "e", "y">>

\* A Python call either returns a value or lets an exception escape.
Returned(value) == [kind |-> "return", value |-> value]
Raised(msg)     == [kind |-> "raise", msg |-> msg]

\* `completion.choices[0].message.content.strip()`: the text, or the
\* exception the expression raises.
ContentStrip(r) ==
    CASE r.kind = "nochoices" -> Raised(IndexErrorMsg)
      [] r.kind = "nocontent" -> Raised(AttributeErrorMsg)
      [] r.kind = "content"   -> Returned(Strip(r.text))

-----------------------------------------------------------------------------
(* comment_rating_per.py (09_python_scripts and 99_archive copies).        *)

rate_comment_per(key, r) ==
    IF ~key THEN Raised(ApiKeyErrorMsg)          \* openai.OpenAI(...) is outside the try
    ELSE IF r.kind = "fault" THEN Returned(ErrorTag \o r.msg)
    ELSE LET c == ContentStrip(r)
         IN  IF c.kind = "raise" THEN Returned(ErrorTag \o c.msg)
             ELSE Returned(c.value)

-----------------------------------------------------------------------------
(* comment_rating_per_v2.py: rate_comment returns (score, reason, raw_resp). *)

Rating(score, reason, raw) == [score |-> score, reason |-> reason, raw_resp |-> raw]

\* The test for the sentinel left out.
ParseRawNoSentinel(raw) ==
    IF ~ReMatches(raw) THEN Raised(UnexpectedFormat \o raw)
    ELSE LET m == ReGroups(raw)
         IN  Returned(Rating(Some(DigitValue(m.digit)), m.text, raw))

\* A mismatch defaulted silently, as find_number_or_nan does, instead of raised.
ParseRawSilent(raw) ==
    IF raw = Sentinel THEN Returned(Rating(None, <<>>, raw))
    ELSE IF ~ReMatches(raw) THEN Returned(Rating(None, <<>>, raw))
    ELSE LET m == ReGroups(raw)
         IN  Returned(Rating(Some(DigitValue(m.digit)), m.text, raw))

\* The body of the try block once `raw` is in hand (lines 62-67).
ParseRaw(raw) ==
    IF raw = Sentinel THEN Returned(Rating(None, <<>>, raw))
    ELSE IF ~ReMatches(raw) THEN Raised(UnexpectedFormat \o raw)
    ELSE LET m == ReGroups(raw)
         IN  Returned(Rating(Some(DigitValue(m.digit)), m.text, raw))

\* The exception printed and raised again.
OnExceptionReraise(msg) == Raised(msg)

\* The except clause (lines 68-70).
OnException(msg) == Returned(Rating(None, <<>>, ErrorTag \o msg))

rate_comment(key, r) ==
    IF ~key THEN Raised(ApiKeyErrorMsg)          \* openai.OpenAI(...) is outside the try
    ELSE IF r.kind = "fault" THEN OnException(r.msg)
    ELSE LET c == ContentStrip(r)
         IN  IF c.kind = "raise" THEN OnException(c.msg)
             ELSE LET p == ParseRaw(c.value)
                  IN  IF p.kind = "raise" THEN OnException(p.msg) ELSE p

-----------------------------------------------------------------------------
(* gender_prediction.py                                                    *)

UpperAlpha == <<"A", "B", "C", "D", "E", "F", "G", "H", "I", "J", "K", "L", "M",
                "N", "O", "P", "Q", "R", "S", "T", "U", "V", "W", "X", "Y", "Z">>
LowerAlpha == <<"a", "b", "c", "d", "e", "f", "g", "h", "i", "j", "k", "l", "m",
                "n", "o", "p", "q", "r", "s", "t", "u", "v", "w", "x", "y", "z">>

LowerChar(c) ==
    IF \E i \in 1..26 : UpperAlpha[i] = c
    THEN LowerAlpha[CHOOSE i \in 1..26 : UpperAlpha[i] = c]
    ELSE c

\* str.lower()
Lower(s) == [i \in 1..Len(s) |-> LowerChar(s[i])]

\* `needle in s`
Contains(s, needle) ==
    \E i \in 1..(Len(s) - Len(needle) + 1) :
        SubSeq(s, i, i + Len(needle) - 1) = needle

Female == <<"f", "e", "m", "a", "l", "e">>
Male   == <<"m", "a", "l", "e">>

\* Only the create() call sits in the try (lines 25-36); the extraction of
\* the content (line 39) is after it.
predict_gender(r) ==
    IF r.kind = "fault" THEN Returned(ErrorTag \o r.msg)
    ELSE LET c == ContentStrip(r)
         IN  IF c.kind = "raise" THEN c
             ELSE LET res == Lower(c.value)
                  IN  IF Contains(res, Female) THEN Returned(Female)
                      ELSE IF Contains(res, Male) THEN Returned(Male)
                      ELSE Returned(res)

-----------------------------------------------------------------------------
(* comment_rating_per_v2.py: the DuckDB sink.                              *)

TableNames == {"comment_score", "scratch"}

NoTable == [present |-> FALSE, rows |-> <<>>]

\* No file at db_path.
NoStore == [exists |-> FALSE, tables |-> [t \in TableNames |-> NoTable]]

\* The row INSERT ... SELECT stores for one dict of `rows`: the identity
\* column and the scored_at default are filled by the database.
Stored(row, id, now) ==
    [id |-> id, title |-> row.title, body |-> row.body, property |-> row.property,
     score |-> row.score, reason |-> row.reason, raw_resp |-> row.raw_resp,
     scored_at |-> now]

\* CREATE OR REPLACE TABLE in place of CREATE TABLE IF NOT EXISTS.
init_db_replace(store, tn, ov) ==
    LET removed   == IF ov /\ store.exists THEN NoStore ELSE store
        connected == [removed EXCEPT !.exists = TRUE]
    IN  [connected EXCEPT !.tables[tn] = [present |-> TRUE, rows |-> <<>>]]

\* The overwrite flag not honoured: the file is never removed.
init_db_keep(store, tn, ov) ==
    LET connected == [store EXCEPT !.exists = TRUE]
    IN  [connected EXCEPT !.tables[tn] =
            IF @.present THEN @ ELSE [present |-> TRUE, rows |-> <<>>]]

\* init_db: os.remove when overwrite and the file exists; duckdb.connect
\* (creates the file when absent); CREATE TABLE IF NOT EXISTS.
init_db(store, tn, ov) ==
    LET removed   == IF ov /\ store.exists THEN NoStore ELSE store
        connected == [removed EXCEPT !.exists = TRUE]
    IN  [connected EXCEPT !.tables[tn] =
            IF @.present THEN @ ELSE [present |-> TRUE, rows |-> <<>>]]

\* INSERT INTO a table the file does not hold raises (and `not rows`
\* returns before it).
write_rows_raises(store, rws, tn) == rws # <<>> /\ ~store.tables[tn].present

\* write_rows: nothing for an empty list, else one INSERT of every row.
write_rows(store, rws, tn, now) ==
    IF rws = <<>> \/ ~store.tables[tn].present THEN store
    ELSE [store EXCEPT !.tables[tn].rows =
            @ \o [k \in 1..Len(rws) |-> Stored(rws[k], Len(@) + k, now)]]

IdleSink ==
    /\ db = NoStore
    /\ con = FALSE
    /\ overwrite = FALSE
    /\ table_name = "comment_score"
    /\ op = "none"
    /\ prev = NoStore
    /\ clock = 0

IdleMain ==
    /\ cur = 0
    /\ rows = <<>>
    /\ inflight = {}
    /\ outcomes = <<>>

-----------------------------------------------------------------------------
(* comment_rating.py: the feather-based job.                               *)

\* asin_list (lines 12-22).
asin_list ==
    {"B0001YH1A2", "B08S359FPG", "B01N5SZTPR", "B0B2NZTQGQ", "B09FPL9GQT",
     "B0BL82L4YV", "B0BL7YBFCL", "B09ZKVP14F", "B007CE373O"}

max_count == 1000001

\* `count % 20 == 1` (line 101).
CheckpointEvery == 20

PropNames == {"sharp", "sturdy"}

RowIds == 1..MaxRows

\* The ASIN column of the comment table: every second row is a product that
\* is not in asin_list.
ASIN(r) == IF r % 2 = 0 THEN "B000000000"
           ELSE IF r % 4 = 1 THEN "B0001YH1A2" ELSE "B007CE373O"

\* A table: its property columns and their cells, None for NA and
\* Some(text) for a stored reply.
Frame(cols, cell) == [cols |-> cols, cell |-> cell]

NoCells == [r \in RowIds |-> [p \in PropNames |-> None]]

FreshFrame == Frame({}, NoCells)

\* pd.isna(rowc[propertyname])
IsNA(f, r, p) == f.cell[r][p] = None

\* Property_Rating[propertyname] = pd.NA when the column is missing (lines 75-76).
WithColumn(f, p) == [f EXCEPT !.cols = @ \cup {p}]

\* Property_Rating.at[indexc, propertyname] = response_text (line 99).
SetCell(f, r, p, text) == [f EXCEPT !.cell[r][p] = Some(text)]

\* The condition of line 84 dropped to the ASIN test alone.
NeedsRatingAlways(f, r, p) == ASIN(r) \in asin_list

\* The condition of line 84.
NeedsRating(f, r, p) == ASIN(r) \in asin_list /\ IsNA(f, r, p)

\* Where the loops stand after row r of property k, with `c` rows scored:
\* both `if count >= max_count: break` (lines 106-109), the next row, the
\* next property, or the final save.
AfterRow(props, k, r, c) ==
    IF r < MaxRows /\ c < max_count
    THEN [pc |-> "job_row", pidx |-> k, ridx |-> r + 1]
    ELSE IF k < Len(props)
    THEN [pc |-> "job_property", pidx |-> k + 1, ridx |-> 0]
    ELSE [pc |-> "job_final_feather", pidx |-> k, ridx |-> r]

\* save_to_feather_with_timestamp (lines 58-66): the write is in a try, so
\* no exception leaves the function; a new file is written when it succeeds.
save_to_feather_with_timestamp(newest, df, ok) ==
    [temp |-> IF ok THEN Some(df) ELSE newest, raised |-> FALSE]

\* The final writes wrapped in a try like the snapshots.
final_save_swallowed(ok, next) == next

\* Where the script stands after a final write (lines 119-120, 154-155):
\* none is in a try, so a failure ends the script.
final_save(ok, next) == IF ok THEN next ELSE "job_aborted"

-----------------------------------------------------------------------------
(* comment_rating.py: the extraction of the scores (lines 129-151).        *)

WordChars == Digits \cup {"_"} \cup {LowerAlpha[k] : k \in 1..26}
                    \cup {UpperAlpha[k] : k \in 1..26}

\* Regex \b at the gap before position k of s.
Boundary(s, k) ==
    LET before == k > 1 /\ s[k - 1] \in WordChars
        after  == k <= Len(s) /\ s[k] \in WordChars
    IN  before # after

\* The match of (10|[0-9]) between two \b at position k: its length, or 0.
NumberAt(s, k) ==
    IF ~Boundary(s, k) THEN 0
    ELSE IF k + 1 <= Len(s) /\ s[k] = "1" /\ s[k + 1] = "0" /\ Boundary(s, k + 2) THEN 2
    ELSE IF s[k] \in Digits /\ Boundary(s, k + 1) THEN 1
    ELSE 0

NaNLower == <<"n", "a", "n">>

find_number_or_nan(s) ==
    IF Contains(Lower(s), NaNLower) THEN None
    ELSE LET hits == {k \in 1..Len(s) : NumberAt(s, k) > 0}
         IN  IF hits = {} THEN None
             ELSE LET k == SetMin(hits)
                  IN  IF NumberAt(s, k) = 2 THEN Some(10) ELSE Some(DigitValue(s[k]))

\* The fullwidth comma U+FF0C, one character of a text.
FullwidthComma == "U+FF0C"

\* re.split on the ASCII or the fullwidth comma, element [0]: the text
\* before the first comma of either kind.
FirstElement(x) ==
    LET commas == {k \in 1..Len(x) : x[k] \in {",", FullwidthComma}}
    IN  IF commas = {} THEN x ELSE SubSeq(x, 1, SetMin(commas) - 1)

\* process_element on a cell: NA is not a str.
process_element(c) ==
    IF c = None THEN None ELSE find_number_or_nan(FirstElement(c[1]))

\* Property_Ratingonly: every property column mapped by process_element.
RatingOnly(f) ==
    [cols |-> f.cols,
     cell |-> [r \in RowIds |-> [p \in PropNames |->
                  IF p \in f.cols THEN process_element(f.cell[r][p]) ELSE None]]]

IdleJob ==
    /\ Property = <<>>
    /\ Property_Rating = FreshFrame
    /\ disk = FreshFrame
    /\ xlsx = None
    /\ ratingonly = None
    /\ temp = None
    /\ pidx = 0
    /\ ridx = 0
    /\ count = 0
    /\ calls = 0
    /\ visits = <<>>
    /\ io = [op |-> "none", ok |-> TRUE]

-----------------------------------------------------------------------------
(* Inputs of the call specifications.                                      *)

Alphabet == {"[", "]", ",", "4", " ", "\n", "a"}

\* Every text over Alphabet of at most n characters.
Texts(n) == UNION {[1..k -> Alphabet] : k \in 0..n}

SampleReplies ==
    { Sentinel,
      <<" ">> \o Sentinel \o <<"\n">>,
      <<"[", "N", "a", "N", ",", " ", "N", "a", "N", "]">>,
      <<"[", "n", "a", "n", ",", "n", "a", "n", "]">>,
      <<"[", "4", ",", "M", "e", "n", "t", "i", "o", "n", "s", " ", "b", "a",
        "l", "a", "n", "c", "e", " ", "p", "o", "s", "i", "t", "i", "v", "e",
        "l", "y", "]">>,
      <<"n", "o", "t", " ", "a", " ", "v", "a", "l", "i", "d", " ", "r", "e",
        "p", "l", "y">>,
      <<"[", "0", ",", "b", "a", "d", "]">>,
      <<"[", "9", ",", "a", ",", "b", "]", "\n">>,
      <<"[", "1", "0", ",", "a", "]">>,
      <<"4", ",", "a">> }

GenderReplies ==
    { Male, Female, <<"M", "a", "l", "e", ".">>, <<" ", "F", "E", "M", "A", "L", "E", "\n">>,
      <<"u", "n", "k", "n", "o", "w", "n">>, <<>> }

Faults == {Fault(NetworkError), Fault(AuthError), Fault(QuotaError)}

Malformed == {NoChoices, NoContent}

Entries == {"rate_comment_per_09", "rate_comment_per_99", "rate_comment_v2", "predict_gender"}

-----------------------------------------------------------------------------
(* One call of a client entry point.                                       *)

CallRateCommentPer ==
    /\ pc = "ready"
    /\ entry \in {"rate_comment_per_09", "rate_comment_per_99"}
    /\ result' = rate_comment_per(haveKey, remote)
    /\ pc' = "done"
    /\ UNCHANGED <<entry, haveKey, remote, sinkVars, mainVars, jobVars, runs>>

CallRateComment ==
    /\ pc = "ready"
    /\ entry = "rate_comment_v2"
    /\ result' = rate_comment(haveKey, remote)
    /\ pc' = "done"
    /\ UNCHANGED <<entry, haveKey, remote, sinkVars, mainVars, jobVars, runs>>

CallPredictGender ==
    /\ pc = "ready"
    /\ entry = "predict_gender"
    /\ result' = predict_gender(remote)
    /\ pc' = "done"
    /\ UNCHANGED <<entry, haveKey, remote, sinkVars, mainVars, jobVars, runs>>

\* rate_comment of comment_rating_per_v2.py on every bounded reply text.
InitParse ==
    /\ pc = "ready"
    /\ entry = "rate_comment_v2"
    /\ haveKey = TRUE
    /\ remote \in {Content(t) : t \in Texts(MaxLen) \cup SampleReplies}
    /\ result = Pending
    /\ IdleSink /\ IdleMain /\ IdleJob /\ runs = 0

NextParse == CallRateComment

SpecParse == InitParse /\ [][NextParse]_vars

\* Every entry point against every kind of remote behaviour.
InitClient ==
    /\ pc = "ready"
    /\ entry \in Entries
    /\ haveKey \in BOOLEAN
    \* gender_prediction.py builds its client at import (line 10): the
    \* function exists only when that succeeded.
    /\ entry = "predict_gender" => haveKey
    /\ remote \in Faults \cup Malformed
                 \cup {Content(t) : t \in SampleReplies \cup GenderReplies}
    /\ result = Pending
    /\ IdleSink /\ IdleMain /\ IdleJob /\ runs = 0

NextClient == CallRateCommentPer \/ CallRateComment \/ CallPredictGender

SpecClient == InitClient /\ [][NextClient]_vars

-----------------------------------------------------------------------------
(* The sink used directly: init_db, any number of write_rows, close.       *)

SinkRow(n) ==
    [title |-> "Love it", body |-> "Finally broke down", property |-> "balance",
     score |-> Some(n), reason |-> <<"o", "k">>, raw_resp |-> <<"[", "4", ",", "o", "k", "]">>]

SinkNaNRow ==
    [title |-> "Too salty", body |-> "I can't take it", property |-> "balance",
     score |-> None, reason |-> <<>>, raw_resp |-> Sentinel]

\* The batches write_rows is given: lists of at most MaxBatch rows.
Batches == {[k \in 1..n |-> IF k % 2 = 1 THEN SinkRow(4) ELSE SinkNaNRow] : n \in 0..MaxBatch}

SinkInitDb(tn, ov) ==
    /\ pc = "closed"
    /\ clock < MaxOps
    /\ db' = init_db(db, tn, ov)
    /\ con' = TRUE
    /\ overwrite' = ov
    /\ table_name' = tn
    /\ op' = "init_db"
    /\ prev' = db
    /\ clock' = clock + 1
    /\ pc' = "open"
    /\ UNCHANGED <<haveKey, remote, callVars, mainVars, jobVars, runs>>

SinkWriteRows(rws, tn) ==
    /\ pc = "open"
    /\ clock < MaxOps
    /\ db' = write_rows(db, rws, tn, clock)
    /\ op' = IF write_rows_raises(db, rws, tn) THEN "write_rows raised" ELSE "write_rows"
    /\ prev' = db
    /\ clock' = clock + 1
    /\ UNCHANGED <<pc, con, overwrite, table_name>>
    /\ UNCHANGED <<haveKey, remote, callVars, mainVars, jobVars, runs>>

SinkClose ==
    /\ pc = "open"
    /\ clock < MaxOps
    /\ con' = FALSE
    /\ op' = "close"
    /\ prev' = db
    /\ clock' = clock + 1
    /\ pc' = "closed"
    /\ UNCHANGED <<db, overwrite, table_name>>
    /\ UNCHANGED <<haveKey, remote, callVars, mainVars, jobVars, runs>>

InitSink ==
    /\ pc = "closed"
    /\ haveKey = TRUE
    /\ remote = Pending
    /\ entry = "none"
    /\ result = Pending
    /\ IdleSink /\ IdleMain /\ IdleJob /\ runs = 0

NextSink ==
    \/ \E tn \in TableNames, ov \in BOOLEAN : SinkInitDb(tn, ov)
    \/ \E rws \in Batches, tn \in TableNames : SinkWriteRows(rws, tn)
    \/ SinkClose

SpecSink == InitSink /\ [][NextSink]_vars

-----------------------------------------------------------------------------
(* comment_rating_per_v2.py: main.                                         *)

\* The `comments` literal of main (lines 115-118).
Comments ==
    << [title |-> "Love it",   body |-> "Finally broke down and bought"],
       [title |-> "Too salty", body |-> "I can't take it every day"] >>

PROP_NAME == "balance"

\* What the remote may do for a request of main.
MainRemotes ==
    { Fault(NetworkError), NoContent,
      Content(Sentinel),
      Content(<<" ">> \o Sentinel \o <<"\n">>),
      Content(<<"[", "4", ",", "M", "e", "n", "t", "i", "o", "n", "s", " ", "b",
                "a", "l", "a", "n", "c", "e", " ", "p", "o", "s", "i", "t", "i",
                "v", "e", "l", "y", "]">>),
      Content(<<"n", "o", "t", " ", "a", " ", "v", "a", "l", "i", "d", " ", "r",
                "e", "p", "l", "y">>) }

\* A store left by earlier runs: `n` rows in comment_score.
OldStore(n) ==
    [exists |-> TRUE,
     tables |-> [t \in TableNames |->
                    IF t = "comment_score"
                    THEN [present |-> TRUE,
                          rows |-> [k \in 1..n |-> Stored(SinkRow(4), k, 0)]]
                    ELSE NoTable]]

\* The dict main appends for comment c and rate_comment's tuple (lines 129-134).
RowDict(c, rating) ==
    [title |-> c.title, body |-> c.body, property |-> PROP_NAME,
     score |-> rating.score, reason |-> rating.reason, raw_resp |-> rating.raw_resp]

\* The append left out.
AppendRowDropped(rws, c, rating) == rws

\* rows.append({...}) (line 129).
AppendRow(rws, c, rating) == Append(rws, RowDict(c, rating))

\* The position after comment k of the loop (lines 123-137).
AfterComment(k) == IF k < Len(Comments) THEN "main_loop" ELSE "main_write"

\* con = init_db(db_path, table_name, overwrite); rows = [] (lines 120-121).
MainInitDb(tn, ov) ==
    /\ pc = "main_start"
    /\ db' = init_db(db, tn, ov)
    /\ con' = TRUE
    /\ overwrite' = ov
    /\ table_name' = tn
    /\ op' = "init_db"
    /\ prev' = db
    /\ rows' = <<>>
    /\ cur' = 1
    /\ outcomes' = <<>>
    /\ pc' = AfterComment(0)
    /\ UNCHANGED <<haveKey, remote, callVars, clock, inflight, jobVars, runs>>

\* rate_comment builds the prompt and sends the request (lines 124-128, 53).
MainRequest ==
    /\ pc = "main_loop"
    /\ inflight' = inflight \cup {cur}
    /\ pc' = "main_await"
    /\ UNCHANGED <<haveKey, remote, callVars, sinkVars, cur, rows, outcomes, jobVars, runs>>

\* The remote answers; rate_comment returns; the row is appended; sleep.
MainReply(r) ==
    /\ pc = "main_await"
    /\ remote' = r
    /\ inflight' = inflight \ {cur}
    /\ outcomes' = Append(outcomes, r)
    /\ LET res == rate_comment(TRUE, r)          \* GPT_KEY is a literal
       IN  IF res.kind = "raise"
           THEN /\ pc' = "main_aborted"
                /\ runs' = runs + 1
                /\ UNCHANGED <<rows, cur>>
           ELSE /\ rows' = AppendRow(rows, Comments[cur], res.value)
                /\ cur' = cur + 1
                /\ pc' = AfterComment(cur)
                /\ UNCHANGED runs
    /\ UNCHANGED <<haveKey, callVars, sinkVars, jobVars>>

\* write_rows(con, rows, table_name); print; con.close() (lines 137-139).
MainWriteRows ==
    /\ pc = "main_write"
    /\ db' = write_rows(db, rows, table_name, clock + 1)
    /\ op' = "write_rows"
    /\ prev' = db
    /\ clock' = clock + 1
    /\ con' = FALSE
    /\ pc' = IF runs + 1 < MaxRuns THEN "main_start" ELSE "main_done"
    /\ runs' = runs + 1
    /\ UNCHANGED <<haveKey, remote, callVars, overwrite, table_name, mainVars, jobVars>>

InitMain ==
    /\ pc = "main_start"
    /\ haveKey = TRUE
    /\ remote = Pending
    /\ entry = "main"
    /\ result = Pending
    /\ db \in {NoStore, OldStore(0), OldStore(2)}
    /\ con = FALSE
    /\ overwrite = FALSE
    /\ table_name = "comment_score"
    /\ op = "none"
    /\ prev = db
    /\ clock = 0
    /\ IdleMain
    /\ IdleJob
    /\ runs = 0

NextMain ==
    \/ \E tn \in TableNames, ov \in BOOLEAN : MainInitDb(tn, ov)
    \/ MainRequest
    \/ \E r \in MainRemotes : MainReply(r)
    \/ MainWriteRows

-----------------------------------------------------------------------------
(* comment_rating.py: the script, one step per loop iteration or write.    *)

JobRemotes ==
    { Fault(QuotaError), NoContent, Content(<<" ", "7", ",", "o", "k", "\n">>) }

\* A table an earlier run left in the feather file: row 1 of "sharp" scored.
UsedFrame == SetCell(WithColumn(FreshFrame, "sharp"), 1, "sharp", <<"1", "0", ",", "o", "k">>)

Go(to) ==
    /\ pc' = to.pc
    /\ pidx' = to.pidx
    /\ ridx' = to.ridx

\* Lines 1-53: the table and the property list are read, the key is checked.
JobStart ==
    /\ pc \in {"job_start", "job_done", "job_aborted"}
    /\ runs < MaxJobRuns
    /\ runs' = runs + 1
    /\ Property_Rating' = disk
    /\ io' = [op |-> "read_feather", ok |-> TRUE]
    /\ count' = 0
    /\ IF ~haveKey
       THEN Go([pc |-> "job_aborted", pidx |-> 0, ridx |-> 0])
       ELSE IF Property = <<>>
       THEN Go([pc |-> "job_final_feather", pidx |-> 0, ridx |-> 0])
       ELSE Go([pc |-> "job_property", pidx |-> 1, ridx |-> 0])
    /\ visits' = <<>>
    /\ UNCHANGED <<haveKey, remote, callVars, sinkVars, mainVars, Property, disk,
                   xlsx, ratingonly, temp, calls>>

\* Lines 70-79: the head of the outer loop for property pidx.
JobProperty ==
    /\ pc = "job_property"
    /\ Property_Rating' = WithColumn(Property_Rating, Property[pidx])
    /\ count' = 0
    /\ IF MaxRows > 0
       THEN Go([pc |-> "job_row", pidx |-> pidx, ridx |-> 1])
       ELSE Go(AfterRow(Property, pidx, MaxRows, 0))
    /\ UNCHANGED <<haveKey, remote, callVars, sinkVars, mainVars, Property, disk,
                   xlsx, ratingonly, temp, calls, visits, io, runs>>

\* Lines 82-109 for a row that needs a rating: the request, and either the
\* reply stored in the cell or the exception printed.
JobRowCall(r) ==
    /\ pc = "job_row"
    /\ NeedsRating(Property_Rating, ridx, Property[pidx])
    /\ calls' = calls + 1
    /\ remote' = r
    /\ LET c == IF r.kind = "fault" THEN Raised(r.msg) ELSE ContentStrip(r)
       IN  IF c.kind = "raise"
           THEN /\ UNCHANGED <<Property_Rating, count>>
                /\ Go(AfterRow(Property, pidx, ridx, count))
           ELSE /\ Property_Rating' = SetCell(Property_Rating, ridx, Property[pidx], c.value)
                /\ count' = count + 1
                /\ IF (count + 1) % CheckpointEvery = 1
                   THEN Go([pc |-> "job_checkpoint", pidx |-> pidx, ridx |-> ridx])
                   ELSE Go(AfterRow(Property, pidx, ridx, count + 1))
    /\ visits' = Append(visits, <<pidx, ridx>>)
    /\ UNCHANGED <<haveKey, callVars, sinkVars, mainVars, Property, disk, xlsx,
                   ratingonly, temp, io, runs>>

\* Lines 82-109 for a row the condition of line 84 passes over.
JobRowSkip ==
    /\ pc = "job_row"
    /\ ~NeedsRating(Property_Rating, ridx, Property[pidx])
    /\ Go(AfterRow(Property, pidx, ridx, count))
    /\ visits' = Append(visits, <<pidx, ridx>>)
    /\ UNCHANGED <<haveKey, remote, callVars, sinkVars, mainVars, Property,
                   Property_Rating, disk, xlsx, ratingonly, temp, count, calls,
                   io, runs>>

\* Lines 101-109: the snapshot taken after the 1st, 21st, ... scored row.  An
\* exception it let out would be caught by the except of line 104.
JobCheckpoint(ok) ==
    /\ pc = "job_checkpoint"
    /\ temp' = save_to_feather_with_timestamp(temp, Property_Rating, ok).temp
    /\ io' = [op |-> "checkpoint", ok |-> ok]
    /\ Go(AfterRow(Property, pidx, ridx, count))
    /\ UNCHANGED <<haveKey, remote, callVars, sinkVars, mainVars, Property,
                   Property_Rating, disk, xlsx, ratingonly, count, calls, visits,
                   runs>>

\* Line 119.  A failed write is taken to leave the file as it was.
JobFinalFeather(ok) ==
    /\ pc = "job_final_feather"
    /\ disk' = IF ok THEN Property_Rating ELSE disk
    /\ io' = [op |-> "final_feather", ok |-> ok]
    /\ pc' = final_save(ok, "job_final_excel")
    /\ UNCHANGED <<haveKey, remote, callVars, sinkVars, mainVars, Property,
                   Property_Rating, xlsx, ratingonly, temp, pidx, ridx, count,
                   calls, visits, runs>>

\* Line 120.
JobFinalExcel(ok) ==
    /\ pc = "job_final_excel"
    /\ xlsx' = IF ok THEN Some(Property_Rating) ELSE xlsx
    /\ io' = [op |-> "final_excel", ok |-> ok]
    /\ pc' = final_save(ok, "job_extract")
    /\ UNCHANGED <<haveKey, remote, callVars, sinkVars, mainVars, Property,
                   Property_Rating, disk, ratingonly, temp, pidx, ridx, count,
                   calls, visits, runs>>

\* Lines 127-155: the scores-only copy and its two files.
JobExtract(ok) ==
    /\ pc = "job_extract"
    /\ ratingonly' = IF ok THEN Some(RatingOnly(Property_Rating)) ELSE ratingonly
    /\ io' = [op |-> "ratingonly", ok |-> ok]
    /\ pc' = final_save(ok, "job_done")
    /\ UNCHANGED <<haveKey, remote, callVars, sinkVars, mainVars, Property,
                   Property_Rating, disk, xlsx, temp, pidx, ridx, count, calls,
                   visits, runs>>

InitJob ==
    /\ pc = "job_start"
    /\ haveKey \in BOOLEAN
    /\ remote = Pending
    /\ entry = "job"
    /\ result = Pending
    /\ IdleSink
    /\ IdleMain
    /\ Property \in UNION {[1..n -> PropNames] : n \in 0..MaxProps}
    /\ Property_Rating = FreshFrame
    /\ disk \in {FreshFrame, UsedFrame}
    /\ xlsx = None
    /\ ratingonly = None
    /\ temp = None
    /\ pidx = 0
    /\ ridx = 0
    /\ count = 0
    /\ calls = 0
    /\ visits = <<>>
    /\ io = [op |-> "none", ok |-> TRUE]
    /\ runs = 0

NextJob ==
    \/ JobStart
    \/ JobProperty
    \/ \E r \in JobRemotes : JobRowCall(r)
    \/ JobRowSkip
    \/ \E ok \in BOOLEAN : JobCheckpoint(ok)
    \/ \E ok \in BOOLEAN : JobFinalFeather(ok)
    \/ \E ok \in BOOLEAN : JobFinalExcel(ok)
    \/ \E ok \in BOOLEAN : JobExtract(ok)

Init == InitMain \/ InitJob

Next == NextMain \/ NextJob

Spec == Init /\ [][Next]_vars

-----------------------------------------------------------------------------
(* Properties of the client entry points and of the reply parser.          *)

StartsWith(s, p) == Len(s) >= Len(p) /\ SubSeq(s, 1, Len(p)) = p

ErrorMark == <<"E", "r", "r", "o", "r", ":">>

\* The text an entry point's return value carries as its payload.
Payload(e, value) == IF e = "rate_comment_v2" THEN value.raw_resp ELSE value

\* C1: with a usable API key, whenever the remote call faults (the request
\* raises, or the completion has no choice or no content), the entry point
\* returns a value whose payload starts with "Error:" and lets no
\* exception escape.
C1_FailClosed ==
    (pc = "done" /\ haveKey /\ remote.kind # "content")
        => /\ result.kind = "return"
           /\ StartsWith(Payload(entry, result.value), ErrorMark)

\* A reply of the shape [<digit>,<text>]: "[", one digit, ",", a text of at
\* least one character, "]".
IsScoredShape(t) ==
    /\ Len(t) >= 5
    /\ t[1] = "["
    /\ t[2] \in Digits
    /\ t[3] = ","
    /\ t[Len(t)] = "]"

ShapeText(t) == SubSeq(t, 4, Len(t) - 1)

HasLineBreak(t) == \E i \in 1..Len(t) : t[i] = "\n"

\* C2 as stated: every reply [<digit>,<text>] yields score = the digit,
\* reason = the text unaltered, raw = the reply.
C2_ReasonExact ==
    (pc = "done" /\ IsScoredShape(remote.text))
        => result = Returned(Rating(Some(DigitValue(remote.text[2])),
                                    ShapeText(remote.text), remote.text))

\* C2 amended: every reply [<digit>,<text>] whose text, with its leading and
\* trailing whitespace removed, is non-empty and has no line break yields
\* score = the digit, reason = the text with that whitespace removed,
\* raw = the reply.
C2_ReasonTrimmed ==
    (/\ pc = "done"
     /\ IsScoredShape(remote.text)
     /\ Strip(ShapeText(remote.text)) # <<>>
     /\ ~HasLineBreak(Strip(ShapeText(remote.text))))
        => result = Returned(Rating(Some(DigitValue(remote.text[2])),
                                    Strip(ShapeText(remote.text)), remote.text))

\* A scored reply whose text carries whitespace that the parser removed.
C2_Witness ==
    /\ pc = "done"
    /\ remote.text = <<"[", "4", ",", " ", "a", "]">>
    /\ result = Returned(Rating(Some(4), <<"a">>, remote.text))

-----------------------------------------------------------------------------
(* Properties of the sink.                                                 *)

IsPrefix(a, b) == Len(a) <= Len(b) /\ SubSeq(b, 1, Len(a)) = a

RowCount(store) ==
    LET RECURSIVE Sum(_)
        Sum(S) == IF S = {} THEN 0
                  ELSE LET t == CHOOSE t \in S : TRUE
                       IN  Len(store.tables[t].rows) + Sum(S \ {t})
    IN  Sum(TableNames)

\* C5: init_db(overwrite=False) leaves every table of an existing file with
\* exactly the rows it had, and write_rows only appends to them, so no
\* persisted row is deleted, truncated or changed.
C5_ReopenKeepsRows ==
    /\ (op = "init_db" /\ ~overwrite)
          => \A t \in TableNames :
                prev.tables[t].present
                    => /\ db.tables[t].present
                       /\ db.tables[t].rows = prev.tables[t].rows
    /\ (op \in {"write_rows", "write_rows raised", "close"})
          => \A t \in TableNames :
                /\ prev.tables[t].present => db.tables[t].present
                /\ IsPrefix(prev.tables[t].rows, db.tables[t].rows)

\* A file holding rows was re-opened without overwrite.
C5_Witness ==
    /\ op = "init_db"
    /\ ~overwrite
    /\ prev.exists
    /\ Len(prev.tables[table_name].rows) >= 2
    /\ db = prev

\* C6: when init_db(overwrite=True) returns, the file holds the rating table
\* with zero rows and nothing else, whatever it held before.
C6_OverwriteEmpties ==
    (op = "init_db" /\ overwrite)
        => /\ db.exists
           /\ db.tables[table_name] = [present |-> TRUE, rows |-> <<>>]
           /\ \A t \in TableNames \ {table_name} : db.tables[t] = NoTable

\* An existing file with rows was opened with overwrite.
C6_Witness ==
    /\ op = "init_db"
    /\ overwrite
    /\ prev.exists
    /\ Len(prev.tables[table_name].rows) >= 2
    /\ RowCount(db) = 0

-----------------------------------------------------------------------------
(* Properties of the batch programs.                                       *)

InMainLoop == pc \in {"main_loop", "main_await"}

\* The remote replied, and the reply trimmed is the sentinel.
IsSentinelReply(r) == r.kind = "content" /\ Strip(r.text) = Sentinel

\* The rows of the rating table that the write_rows of this run of main added.
WrittenRows ==
    LET t == db.tables[table_name].rows
    IN  SubSeq(t, Len(t) - Len(rows) + 1, Len(t))

\* C3 as stated: a reply that is the sentinel once trimmed gives score None,
\* reason "" and raw_resp = the reply as the remote sent it, and the row
\* written for it has score None and reason "".
C3_SentinelRawUnchanged ==
    \A k \in 1..Len(rows) :
        IsSentinelReply(outcomes[k])
            => /\ rows[k].score = None
               /\ rows[k].reason = <<>>
               /\ rows[k].raw_resp = outcomes[k].text

\* C3 amended: a reply that is the sentinel once trimmed gives score None,
\* reason "" and raw_resp = the trimmed reply (the sentinel itself), and the
\* row written for it has score None and reason "".
C3_SentinelRow ==
    /\ \A k \in 1..Len(rows) :
          IsSentinelReply(outcomes[k])
              => /\ rows[k].score = None
                 /\ rows[k].reason = <<>>
                 /\ rows[k].raw_resp = Sentinel
    /\ (entry = "main" /\ op = "write_rows")
          => /\ Len(db.tables[table_name].rows) >= Len(rows)
             /\ \A k \in 1..Len(rows) :
                   IsSentinelReply(outcomes[k])
                       => /\ WrittenRows[k].title = Comments[k].title
                          /\ WrittenRows[k].score = None
                          /\ WrittenRows[k].reason = <<>>
                          /\ WrittenRows[k].raw_resp = Sentinel

\* The row of a sentinel sent with surrounding whitespace has been written.
C3_Witness ==
    /\ entry = "main"
    /\ op = "write_rows"
    /\ Len(rows) = 2
    /\ outcomes[2] = Content(<<" ">> \o Sentinel \o <<"\n">>)
    /\ WrittenRows[2].score = None
    /\ WrittenRows[2].raw_resp = Sentinel

\* Results recorded in memory that no file or table holds yet.
Unpersisted ==
    IF InMainLoop \/ pc = "main_write" THEN Len(rows)
    ELSE IF pc \in {"job_row", "job_property", "job_checkpoint", "job_final_feather"}
    THEN Cardinality({c \in RowIds \X PropNames :
            /\ Property_Rating.cell[c[1]][c[2]] # None
            /\ disk.cell[c[1]][c[2]] = None
            /\ (temp = None \/ temp[1].cell[c[1]][c[2]] = None)})
    ELSE 0

\* C7 as stated: a pair's result is persisted before the remote call for the
\* next pair begins, and never more than one scored result is unpersisted.
C7_PersistedBeforeNext ==
    /\ inflight # {} => Unpersisted = 0
    /\ Unpersisted <= 1

\* At most one request is outstanding; when the request for a comment is
\* issued every earlier comment has been answered and has its row in the
\* in-memory list; a snapshot step follows a freshly scored cell.
C7_Calls ==
    /\ Cardinality(inflight) <= 1
    /\ pc = "main_loop" => inflight = {}
    /\ pc = "main_await" => inflight = {cur}
    /\ InMainLoop
          => /\ Len(rows) = cur - 1
             /\ Len(outcomes) = cur - 1
             /\ cur <= Len(Comments)
             /\ db = init_db(prev, table_name, overwrite)
    /\ pc = "job_checkpoint"
          => /\ count % CheckpointEvery = 1
             /\ Property_Rating.cell[ridx][Property[pidx]] # None

\* Storage changes only in the batched steps: the table at init_db and at
\* the write_rows after the loop, the snapshot at a checkpoint, the feather
\* file at the final save.
C7_Batched ==
    /\ db' # db => pc \in {"main_start", "main_write"}
    /\ temp' # temp => pc = "job_checkpoint"
    /\ disk' # disk => pc = "job_final_feather"

\* C7 amended: the remote calls are strictly sequential (at most one request
\* is outstanding, each result is recorded in memory before the next request
\* is issued), while persisting is batched: main writes nothing of the run
\* before the loop ends, and the feather job saves only at the snapshot right
\* after the 1st, 21st, ... scored row of a property and at the final save.
C7_SequentialCalls == []C7_Calls /\ [][C7_Batched]_vars

\* The request for the second comment is out, the first comment's row is in
\* the list and the table is still empty.
C7_Witness ==
    /\ pc = "main_await"
    /\ cur = 2
    /\ inflight = {2}
    /\ Len(rows) = 1
    /\ db.tables[table_name].rows = <<>>

\* The remote call failed: it raised, or its completion was unusable.
IsRemoteFailure(r) == r.kind \in {"fault", "nochoices", "nocontent"}

\* Every <<property index, row>> pair in loop order.
RECURSIVE AllVisits(_, _)
AllVisits(k, n) ==
    IF k > n THEN <<>>
    ELSE [r \in 1..MaxRows |-> <<k, r>>] \o AllVisits(k + 1, n)

\* C8: no remote-call failure halts a batch.  main never aborts, handles
\* the comments one by one in order, and its single write adds exactly one
\* row per comment, a failed call's row having score None, reason "" and
\* an "Error:" raw_resp.  The feather job aborts only for a missing key or
\* a failed final write, and when its loops end they have reached every
\* <<property, row>> pair exactly once, in order.
C8_BatchNotHalted ==
    /\ pc # "main_aborted"
    /\ entry = "main"
          => /\ Len(rows) = Len(outcomes)
             /\ \A k \in 1..Len(rows) :
                   /\ rows[k].title = Comments[k].title
                   /\ rows[k].body = Comments[k].body
                   /\ IsRemoteFailure(outcomes[k])
                         => /\ rows[k].score = None
                            /\ rows[k].reason = <<>>
                            /\ StartsWith(rows[k].raw_resp, ErrorMark)
    /\ (entry = "main" /\ op = "write_rows")
          => /\ Len(rows) = Len(Comments)
             /\ Len(db.tables[table_name].rows) = Len(prev.tables[table_name].rows) + Len(Comments)
             /\ \A k \in 1..Len(rows) :
                   WrittenRows[k] = Stored(rows[k], Len(prev.tables[table_name].rows) + k, clock)
    /\ pc = "job_aborted" => (~haveKey \/ ~io.ok)
    /\ pc \in {"job_final_feather", "job_final_excel", "job_extract", "job_done"}
          => visits = AllVisits(1, Len(Property))

\* main wrote its rows although the call for the first comment failed and
\* the second succeeded.
C8_Witness ==
    /\ entry = "main"
    /\ op = "write_rows"
    /\ IsRemoteFailure(outcomes[1])
    /\ outcomes[2].kind = "content"
    /\ WrittenRows[1].score = None
    /\ WrittenRows[2].score = Some(4)

C9_Step ==
    /\ pc = "job_checkpoint"
          => /\ Property_Rating' = Property_Rating
             /\ io'.op = "checkpoint"
             /\ pc' \in {"job_row", "job_property", "job_final_feather"}
             /\ ~io'.ok => temp' = temp
    /\ (pc \in {"job_final_feather", "job_final_excel"} /\ pc' # pc)
          => /\ io'.op \in {"final_feather", "final_excel"}
             /\ pc' = "job_aborted" <=> ~io'.ok

\* C9: a snapshot, failed or not, leaves the in-memory table as it is and
\* the loop goes on (a failed one writes no file); a failed final write ends
\* the script, and only a failed one does.
C9_StorageErrors == [][C9_Step]_vars

\* A snapshot failed, the loops went on to the end, and the final write
\* failed and ended the script.
C9_Witness ==
    /\ runs = 1
    /\ pc = "job_aborted"
    /\ io = [op |-> "final_feather", ok |-> FALSE]
    /\ count >= 1
    /\ temp = None

C10_Step ==
    \* a call is issued only for a cell that is NA and on a listed ASIN,
    \* and is issued for every such cell the loop reaches
    /\ calls' # calls
          <=> /\ pc = "job_row"
              /\ ASIN(ridx) \in asin_list
              /\ Property_Rating.cell[ridx][Property[pidx]] = None
    \* within a run a cell that holds a value keeps it
    /\ runs' = runs
          => \A r \in RowIds, p \in PropNames :
                Property_Rating.cell[r][p] # None
                    => Property_Rating'.cell[r][p] = Property_Rating.cell[r][p]
    \* a failed call leaves the table, and so the cell, as it was
    /\ (calls' # calls /\ IsRemoteFailure(remote'))
          => Property_Rating' = Property_Rating
    \* a successful call stores the trimmed reply in that cell only
    /\ (calls' # calls /\ remote'.kind = "content")
          => Property_Rating' =
                SetCell(Property_Rating, ridx, Property[pidx], Strip(remote'.text))

\* C10: a remote call is issued for a cell exactly when the loop reaches it
\* while it is NA and its ASIN is listed; a cell that holds a value is not
\* requested again nor changed; a cell whose call failed stays NA, and is
\* requested again when a later run reaches it.
C10_Resumable == [][C10_Step]_vars

\* In a second run, the cell of row 1 whose calls failed in the first run
\* has been requested again and now holds a reply.
C10_Witness ==
    /\ runs = 2
    /\ Property = <<"sharp">>
    /\ calls >= 3
    /\ disk.cols = {"sharp"}
    /\ disk.cell[1]["sharp"] = None
    /\ Property_Rating.cell[1]["sharp"] # None

=============================================================================
